---- MODULE Spec2Model ----
(***************************************************************************)
(* Admin server actions of src/actions/admin.js: the privilege check       *)
(* (verifyAdmin), the three admin-gated listings, the two verification-     *)
(* status updates and the payout approval with its credit-ledger            *)
(* transaction.                                                             *)
(*                                                                          *)
(* The store (db.user, db.payout, db.creditTransaction) is the state.  A    *)
(* request is one invocation of a server action.  Every store call is one   *)
(* round trip the handler awaits; a handler whose awaits read only data no  *)
(* action of this file writes (the User rows' clerkUserId, role and id) and *)
(* that performs at most one other store call is a single atomic step.      *)
(* approvePayout awaits twice on data other requests write (the payout      *)
(* fetch, then the transaction), so it is three steps: begin, fetch, tx.    *)
(***************************************************************************)
EXTENDS Integers, Sequences, FiniteSets, TLC

\* Largest initial credit balance of the provider that owns the payouts.
MaxCredits == 2
\* Largest requested amount of a payout.
MaxAmount == 2

NULL == "null"

\* Rows of db.user (their ids), rows of db.payout, and in-flight requests.
UserIds == {"a1", "a2", "l1", "l2", "c1"}
PayoutIds == {"p1", "p2"}
Requests == {"r1", "r2"}

\* What auth() can resolve the caller to: nobody (NULL), a subject that has
\* a User row with role ADMIN or with another role, or a subject that has no
\* User row.
Subjects == {NULL, "clerk_a1", "clerk_l1", "clerk_ghost"}
\* The admins whose approvals run concurrently.
AdminSubjects == {"clerk_a1", "clerk_a2"}

\* formData.get(...) values the callers send; "" stands for an absent field
\* (formData.get returns null, which is falsy like the empty string).
\* A handler reads formData only after the gate, so a request that fails the
\* gate holds none of its inputs.
LawyerIdInputs == {"", "l1", "l2", "nobody"}
StatusInputs == {"", "VERIFIED", "REJECTED", "PENDING"}
SuspendInputs == {"", "true", "false"}
PayoutIdInputs == {"", "p1", "p2", "p9"}

VARIABLES
    users,        \* db.user: id -> row
    payouts,      \* db.payout: id -> row
    ledger,       \* db.creditTransaction, in insertion order
    clock,        \* what new Date() reads
    doctorAlias,  \* whether the store client also exposes a payout's owner as doctor/doctorId
    req           \* per request: position in its handler, locals and result

vars == <<users, payouts, ledger, clock, doctorAlias, req>>
store == <<users, payouts, ledger>>

(***************************************************************************)
(* Store reads                                                              *)
(***************************************************************************)

\* db.user.findUnique({ where: { clerkUserId } }): the row's id, or NULL.
findUniqueUser(clerkUserId) ==
    IF \E id \in UserIds : users[id].clerkUserId = clerkUserId
    THEN CHOOSE id \in UserIds : users[id].clerkUserId = clerkUserId
    ELSE NULL

\* A JavaScript property read obj.key is undefined when the object lacks the key.
IsUndefined(obj, key) == key \notin DOMAIN obj

\* The Payout model and the store client are not part of this file.  The
\* query names the owner relation lawyer; the code then reads payout.doctor
\* and payout.doctorId.  Whether the client's objects carry those two keys as
\* well is fixed by the build, not by this file: both builds are modelled.
AliasKeys == IF doctorAlias THEN {"doctor", "doctorId"} ELSE {}

\* The keys of the object db.payout.findUnique returns for
\* include: { lawyer: true }: the scalar columns and the included relation.
PayoutKeys ==
    {"id", "credits", "status", "processedAt", "processedBy", "lawyerId", "lawyer"}
        \cup AliasKeys

\* Mutant: the status filter dropped from the where clause.
PayoutMatches_idOnly(payoutId) == payoutId \in PayoutIds

\* The where clause of the payout fetch: id and status: "PROCESSING".
PayoutMatches(payoutId) ==
    /\ payoutId \in PayoutIds
    /\ payouts[payoutId].status = "PROCESSING"

\* db.payout.findUnique({ where: { id, status: "PROCESSING" },
\*                        include: { lawyer: true } }): the object, or NULL.
findUniquePayout(payoutId) ==
    IF PayoutMatches(payoutId)
    THEN LET row == payouts[payoutId] IN
         [k \in PayoutKeys |->
            CASE k = "id" -> payoutId
              [] k \in {"lawyerId", "doctorId"} -> row.lawyerId
              [] k \in {"lawyer", "doctor"} -> users[row.lawyerId]
              [] OTHER -> row[k]]
    ELSE NULL

(***************************************************************************)
(* verifyAdmin                                                              *)
(***************************************************************************)

\* Mutant: the role test dropped, any caller with a User row passes.
verifyAdmin_anyUser(userId, authThrows, dbThrows) ==
    IF authThrows THEN "raised"
    ELSE IF userId = NULL THEN "false"
    ELSE IF dbThrows THEN "false"
    ELSE IF findUniqueUser(userId) # NULL THEN "true" ELSE "false"

\* verifyAdmin(): "true", "false", or "raised" when the call rejects.
\* auth() is awaited before the try block, so its failure is not caught;
\* a failure of db.user.findUnique is caught and gives false.
verifyAdmin(userId, authThrows, dbThrows) ==
    IF authThrows THEN "raised"
    ELSE IF userId = NULL THEN "false"
    ELSE IF dbThrows THEN "false"
    ELSE LET user == findUniqueUser(userId) IN
         IF user # NULL /\ users[user].role = "ADMIN" THEN "true" ELSE "false"

(***************************************************************************)
(* Requests                                                                 *)
(***************************************************************************)

NoPayout == [credits |-> 0, doctorId |-> NULL]

\* A request that runs no handler.
Idle ==
    [pc |-> "idle", op |-> "-", userId |-> NULL, authThrows |-> FALSE,
     dbThrows |-> FALSE, isAdmin |-> "-", lawyerId |-> "", status |-> "",
     suspend |-> "", payoutId |-> "", admin |-> NULL, payout |-> NoPayout,
     outcome |-> "-", result |-> "-", cause |-> "-", list |-> <<>>,
     revalidated |-> FALSE]

\* The request as the handler op starts it for the caller.
Started(op, userId, authThrows, dbThrows) ==
    [Idle EXCEPT !.op = op, !.userId = userId, !.authThrows = authThrows,
                 !.dbThrows = dbThrows,
                 !.isAdmin = verifyAdmin(userId, authThrows, dbThrows)]

Throw(q, message, cause) ==
    [q EXCEPT !.pc = "done", !.outcome = "throw", !.result = message, !.cause = cause]

Return(q, value) ==
    [q EXCEPT !.pc = "done", !.outcome = "return", !.result = value]

\* const isAdmin = await verifyAdmin(); if (!isAdmin) throw new Error("Unauthorized").
\* A rejection of verifyAdmin itself propagates out of the handler.
Gate(q) ==
    IF q.isAdmin = "raised" THEN Throw(q, "auth() rejected", "-")
    ELSE Throw(q, "Unauthorized", "-")

\* The elements of the finite set S as a sequence, by ascending rank.
RECURSIVE OrderBy(_, _)
OrderBy(S, rank) ==
    IF S = {} THEN <<>>
    ELSE LET first == CHOOSE x \in S : \A y \in S : rank[x] <= rank[y]
         IN <<first>> \o OrderBy(S \ {first}, rank)

(***************************************************************************)
(* Initial store                                                            *)
(***************************************************************************)

\* name and createdAt are ordinals: the alphabetical position of the display
\* name and the order of creation.  email and specialty are copied by the
\* listings and never read or written otherwise; they are left out.
UserRow(clerkUserId, role, verificationStatus, credits, ord) ==
    [clerkUserId |-> clerkUserId, role |-> role,
     verificationStatus |-> verificationStatus, credits |-> credits,
     name |-> ord, createdAt |-> ord]

\* processedAt = 0 and processedBy = NULL: not processed yet.
PayoutRow(lawyerId, credits, createdAt) ==
    [lawyerId |-> lawyerId, credits |-> credits, status |-> "PROCESSING",
     processedAt |-> 0, processedBy |-> NULL, createdAt |-> createdAt]

Init ==
    /\ \E c \in 0..MaxCredits :
         users = [id \in UserIds |->
            CASE id = "a1" -> UserRow("clerk_a1", "ADMIN", "PENDING", 0, 1)
              [] id = "a2" -> UserRow("clerk_a2", "ADMIN", "PENDING", 0, 2)
              [] id = "l1" -> UserRow("clerk_l1", "LAWYER", "VERIFIED", c, 3)
              [] id = "l2" -> UserRow("clerk_l2", "LAWYER", "PENDING", 1, 4)
              [] id = "c1" -> UserRow("clerk_c1", "CLIENT", "PENDING", 0, 5)]
    /\ \E a \in 1..MaxAmount :
         payouts = [id \in PayoutIds |->
            IF id = "p1" THEN PayoutRow("l1", a, 1) ELSE PayoutRow("l1", 1, 2)]
    /\ ledger = <<>>
    /\ clock = 1
    /\ doctorAlias \in BOOLEAN
    /\ req = [r \in Requests |-> Idle]

(***************************************************************************)
(* Handlers that are one atomic step                                        *)
(***************************************************************************)

\* A handler starts only on a request that runs nothing.
Free(r) == req[r].pc = "idle"

Finish(r, q) == req' = [req EXCEPT ![r] = q]

\* export async function verifyAdmin(), called as a server action of its own.
VerifyAdmin(r, userId, authThrows, dbThrows) ==
    /\ Free(r)
    /\ LET q == Started("verifyAdmin", userId, authThrows, dbThrows) IN
       Finish(r, IF q.isAdmin = "raised" THEN Throw(q, "auth() rejected", "-")
                 ELSE Return(q, q.isAdmin))
    /\ UNCHANGED <<users, payouts, ledger, clock, doctorAlias>>

\* where: { role: "LAWYER", verificationStatus }.
Lawyers(verificationStatus) ==
    {id \in UserIds : /\ users[id].role = "LAWYER"
                      /\ users[id].verificationStatus = verificationStatus}

\* The rows findMany returns for the ids, in their order.
UserList(ids) ==
    [i \in 1..Len(ids) |->
        [id |-> ids[i], name |-> users[ids[i]].name,
         createdAt |-> users[ids[i]].createdAt,
         verificationStatus |-> users[ids[i]].verificationStatus]]

GetPendingDoctors(r, userId, authThrows, dbThrows, storeThrows) ==
    /\ Free(r)
    /\ LET q == Started("getPendingDoctors", userId, authThrows, dbThrows) IN
       Finish(r,
          IF q.isAdmin # "true" THEN Gate(q)
          ELSE IF storeThrows THEN Throw(q, "Failed to fetch pending lawyers", "store")
          ELSE [Return(q, "doctors") EXCEPT
                  !.list = UserList(OrderBy(Lawyers("PENDING"),
                                   [id \in UserIds |-> 0 - users[id].createdAt]))])
    /\ UNCHANGED <<users, payouts, ledger, clock, doctorAlias>>

\* A store failure is returned as { error }, not thrown.
GetVerifiedLawyers(r, userId, authThrows, dbThrows, storeThrows) ==
    /\ Free(r)
    /\ LET q == Started("getVerifiedLawyers", userId, authThrows, dbThrows) IN
       Finish(r,
          IF q.isAdmin # "true" THEN Gate(q)
          ELSE IF storeThrows
               THEN [Return(q, "error") EXCEPT !.cause = "Failed to fetch verified lawyers"]
          ELSE [Return(q, "lawyers") EXCEPT
                  !.list = UserList(OrderBy(Lawyers("VERIFIED"),
                                   [id \in UserIds |-> users[id].name]))])
    /\ UNCHANGED <<users, payouts, ledger, clock, doctorAlias>>

\* The payouts in PROCESSING with the selected fields of their lawyer.
PendingPayout(id) ==
    [id |-> id, credits |-> payouts[id].credits,
     lawyer |-> [id |-> payouts[id].lawyerId,
                 name |-> users[payouts[id].lawyerId].name,
                 credits |-> users[payouts[id].lawyerId].credits]]

GetPendingPayouts(r, userId, authThrows, dbThrows, storeThrows) ==
    /\ Free(r)
    /\ LET q == Started("getPendingPayouts", userId, authThrows, dbThrows)
           ids == OrderBy({id \in PayoutIds : payouts[id].status = "PROCESSING"},
                          [id \in PayoutIds |-> 0 - payouts[id].createdAt])
       IN
       Finish(r,
          IF q.isAdmin # "true" THEN Gate(q)
          ELSE IF storeThrows THEN Throw(q, "Failed to fetch pending payouts", "store")
          ELSE [Return(q, "payouts") EXCEPT
                  !.list = [i \in 1..Len(ids) |-> PendingPayout(ids[i])]])
    /\ UNCHANGED <<users, payouts, ledger, clock, doctorAlias>>

\* db.user.update({ where: { id }, data: { verificationStatus } }) succeeds
\* when the row exists and the store does not fail; otherwise it throws.
UserUpdateOk(id, storeThrows) == id \in UserIds /\ ~storeThrows

\* Mutant: any status that is present is accepted.
ValidStatusInput_anyStatus(lawyerId, status) == lawyerId # "" /\ status # ""

\* The validation of updateLawyerStatus (line 90).
ValidStatusInput(lawyerId, status) ==
    lawyerId # "" /\ status \in {"VERIFIED", "REJECTED"}

UpdateLawyerStatus(r, userId, authThrows, dbThrows, lawyerId, status, storeThrows) ==
    /\ Free(r)
    /\ LET q0 == Started("updateLawyerStatus", userId, authThrows, dbThrows)
           q == [q0 EXCEPT !.lawyerId = lawyerId, !.status = status]
       IN
       IF q0.isAdmin # "true"
       THEN Finish(r, Gate(q0)) /\ UNCHANGED users
       ELSE IF ~ValidStatusInput(lawyerId, status)
       THEN Finish(r, Throw(q, "Invalid input", "-")) /\ UNCHANGED users
       ELSE IF ~UserUpdateOk(lawyerId, storeThrows)
       THEN /\ Finish(r, Throw(q, "Failed to update lawyer status", "store"))
            /\ UNCHANGED users
       ELSE /\ users' = [users EXCEPT ![lawyerId].verificationStatus = status]
            /\ Finish(r, [Return(q, "success") EXCEPT !.revalidated = TRUE])
    /\ UNCHANGED <<payouts, ledger, clock, doctorAlias>>

\* Mutant: a suspension marks the provider REJECTED.
ActiveStatus_rejects(suspend) == IF suspend = "true" THEN "REJECTED" ELSE "VERIFIED"

\* const status = suspend ? "PENDING" : "VERIFIED", suspend being
\* formData.get("suspend") === "true".
ActiveStatus(suspend) == IF suspend = "true" THEN "PENDING" ELSE "VERIFIED"

UpdateLawyerActiveStatus(r, userId, authThrows, dbThrows, lawyerId, suspend, storeThrows) ==
    /\ Free(r)
    /\ LET q0 == Started("updateLawyerActiveStatus", userId, authThrows, dbThrows)
           q == [q0 EXCEPT !.lawyerId = lawyerId, !.suspend = suspend]
       IN
       IF q0.isAdmin # "true"
       THEN Finish(r, Gate(q0)) /\ UNCHANGED users
       ELSE IF lawyerId = ""
       THEN Finish(r, Throw(q, "LAWYER ID is required", "-")) /\ UNCHANGED users
       ELSE IF ~UserUpdateOk(lawyerId, storeThrows)
       THEN /\ Finish(r, Throw(q, "Failed to update lawyer status", "store"))
            /\ UNCHANGED users
       ELSE /\ users' = [users EXCEPT
                           ![lawyerId].verificationStatus = ActiveStatus(suspend)]
            /\ Finish(r, [Return(q, "success") EXCEPT !.revalidated = TRUE])
    /\ UNCHANGED <<payouts, ledger, clock, doctorAlias>>

\* The caller has read the result; the request can run another handler.
Respond(r) ==
    /\ req[r].pc = "done"
    /\ req' = [req EXCEPT ![r] = Idle]
    /\ UNCHANGED <<users, payouts, ledger, clock, doctorAlias>>

(***************************************************************************)
(* approvePayout                                                            *)
(***************************************************************************)

\* Lines 185-199: the gate, the payoutId validation, and, inside the try,
\* the second auth() and the lookup of the admin's own row.  A failure of
\* either is caught and rethrown wrapped.
ApproveBegin(r, userId, authThrows, dbThrows, payoutId, lookupThrows) ==
    /\ Free(r)
    /\ LET q0 == Started("approvePayout", userId, authThrows, dbThrows)
           q == [q0 EXCEPT !.payoutId = payoutId]
       IN
       Finish(r,
          IF q0.isAdmin # "true" THEN Gate(q0)
          ELSE IF payoutId = "" THEN Throw(q, "Payout ID is required", "-")
          ELSE IF lookupThrows THEN Throw(q, "Failed to approve payout", "store")
          ELSE [q EXCEPT !.pc = "fetch", !.admin = findUniqueUser(userId)])
    /\ UNCHANGED <<users, payouts, ledger, clock, doctorAlias>>

\* Lines 217-219 on the fetched object: payout.doctor.credits < payout.credits.
\* The query includes the relation lawyer; reading .credits of an undefined
\* payout.doctor is a TypeError.
BalanceCheck(payout) ==
    IF IsUndefined(payout, "doctor") THEN "TypeError"
    ELSE IF payout["doctor"].credits < payout["credits"]
         THEN "lawyer doesn't have enough credits for this payout"
    ELSE "ok"

\* Lines 202-219: the payout fetch and the two checks that follow it with no
\* await in between.  Of the fetched object the transaction reads
\* payout.credits and payout.doctorId; these stay in the request.
ApproveFetch(r, storeThrows) ==
    /\ req[r].pc = "fetch"
    /\ LET q == req[r]
           payout == findUniquePayout(q.payoutId)
       IN
       Finish(r,
          IF storeThrows THEN Throw(q, "Failed to approve payout", "store")
          ELSE IF ~PayoutMatches(q.payoutId)
               THEN Throw(q, "Failed to approve payout",
                          "Payout request not found or already processed")
          ELSE IF BalanceCheck(payout) # "ok"
               THEN Throw(q, "Failed to approve payout", BalanceCheck(payout))
          ELSE [q EXCEPT !.pc = "tx",
                         !.payout = [credits |-> payout["credits"],
                                     doctorId |-> payout["doctorId"]]])
    /\ UNCHANGED <<users, payouts, ledger, clock, doctorAlias>>

\* The three statements of the transaction callback (lines 224-254), in
\* order, on the store <<users, payouts, ledger>> s; upTo statements run.
\* tx.payout.update is keyed by id alone.
TxStatements(s, q, upTo) ==
    LET s1 == IF upTo >= 1
              THEN <<s[1],
                     [s[2] EXCEPT ![q.payoutId] =
                        [@ EXCEPT !.status = "PROCESSED",
                                  !.processedAt = clock,
                                  !.processedBy =
                                     IF q.admin = NULL THEN "unknown" ELSE q.admin]],
                     s[3]>>
              ELSE s
        s2 == IF upTo >= 2
              THEN <<[s1[1] EXCEPT ![q.payout.doctorId].credits = @ - q.payout.credits],
                     s1[2], s1[3]>>
              ELSE s1
        s3 == IF upTo >= 3
              THEN <<s2[1], s2[2],
                     Append(s2[3], [userId |-> q.payout.doctorId,
                                    amount |-> 0 - q.payout.credits,
                                    type |-> "ADMIN_ADJUSTMENT"])>>
              ELSE s2
    IN s3

\* Mutant: the statements run outside a transaction, so those before the
\* failing one stay applied.
Transaction_noRollback(s, q, failAt) ==
    IF failAt = 0 THEN TxStatements(s, q, 3) ELSE TxStatements(s, q, failAt - 1)

\* db.$transaction(callback): all the statements when none throws (failAt = 0),
\* and nothing when statement failAt throws, the transaction being rolled back.
Transaction(s, q, failAt) ==
    IF failAt = 0 THEN TxStatements(s, q, 3) ELSE s

\* Lines 222-258.  The interactive transaction is several round trips, but
\* its writes are invisible to other requests until it commits, and they are
\* blind writes and a relative decrement, so it is one step at the commit.
ApproveTx(r, failAt) ==
    /\ req[r].pc = "tx"
    /\ LET q == req[r]
           s == Transaction(<<users, payouts, ledger>>, q, failAt)
       IN
       /\ users' = s[1]
       /\ payouts' = s[2]
       /\ ledger' = s[3]
       /\ IF failAt = 0
          THEN /\ Finish(r, [Return(q, "success") EXCEPT !.revalidated = TRUE])
               /\ clock' = clock + 1
          ELSE /\ Finish(r, Throw(q, "Failed to approve payout", "store"))
               /\ clock' = clock
    /\ UNCHANGED doctorAlias

(***************************************************************************)
(* Specifications                                                           *)
(***************************************************************************)

ApprovePayoutStep(r) ==
    \/ \E userId \in Subjects, authThrows, dbThrows, lookupThrows \in BOOLEAN,
          payoutId \in PayoutIdInputs :
          ApproveBegin(r, userId, authThrows, dbThrows, payoutId, lookupThrows)
    \/ \E storeThrows \in BOOLEAN : ApproveFetch(r, storeThrows)
    \/ \E failAt \in 0..3 : ApproveTx(r, failAt)

\* Every handler, one request at a time, for every caller and every failure
\* of auth() and of the store.
Next ==
    \/ \E userId \in Subjects, authThrows, dbThrows \in BOOLEAN :
          VerifyAdmin("r1", userId, authThrows, dbThrows)
    \/ \E userId \in Subjects, authThrows, dbThrows, storeThrows \in BOOLEAN :
          GetPendingDoctors("r1", userId, authThrows, dbThrows, storeThrows)
    \/ \E userId \in Subjects, authThrows, dbThrows, storeThrows \in BOOLEAN :
          GetVerifiedLawyers("r1", userId, authThrows, dbThrows, storeThrows)
    \/ \E userId \in Subjects, authThrows, dbThrows, storeThrows \in BOOLEAN :
          GetPendingPayouts("r1", userId, authThrows, dbThrows, storeThrows)
    \/ \E userId \in Subjects, authThrows, dbThrows, storeThrows \in BOOLEAN,
          lawyerId \in LawyerIdInputs, status \in StatusInputs :
          UpdateLawyerStatus("r1", userId, authThrows, dbThrows, lawyerId, status,
                             storeThrows)
    \/ \E userId \in Subjects, authThrows, dbThrows, storeThrows \in BOOLEAN,
          lawyerId \in LawyerIdInputs, suspend \in SuspendInputs :
          UpdateLawyerActiveStatus("r1", userId, authThrows, dbThrows, lawyerId,
                                   suspend, storeThrows)
    \/ ApprovePayoutStep("r1")
    \/ Respond("r1")

Spec == Init /\ [][Next]_vars

\* approvePayout requests of admins running concurrently.
NextConcurrent ==
    \E r \in Requests :
       \/ \E userId \in AdminSubjects, payoutId \in PayoutIdInputs :
             ApproveBegin(r, userId, FALSE, FALSE, payoutId, FALSE)
       \/ \E storeThrows \in BOOLEAN : ApproveFetch(r, storeThrows)
       \/ \E failAt \in 0..3 : ApproveTx(r, failAt)
       \/ Respond(r)

SpecConcurrent == Init /\ [][NextConcurrent]_vars

(***************************************************************************)
(* Claims                                                                   *)
(***************************************************************************)

\* Request r's handler ends in this step.
Completes(r) == req[r].pc # "done" /\ req'[r].pc = "done"

\* The caller of request q is one verifyAdmin answers false for: auth()
\* resolves, and there is no identity, or the lookup fails, or there is no
\* User row for the subject, or its role is not ADMIN.
CallerNotAdmin(q) ==
    /\ ~q.authThrows
    /\ \/ q.userId = NULL
       \/ q.dbThrows
       \/ \A id \in UserIds : users[id].clerkUserId = q.userId => users[id].role # "ADMIN"

CallerIsAdmin(q) ==
    /\ ~q.authThrows
    /\ ~q.dbThrows
    /\ \E id \in UserIds : users[id].clerkUserId = q.userId /\ users[id].role = "ADMIN"

GatedOps ==
    {"getPendingDoctors", "getVerifiedLawyers", "updateLawyerStatus",
     "updateLawyerActiveStatus", "getPendingPayouts", "approvePayout"}

\* C1: a gated handler called by a caller verifyAdmin answers false for
\* throws Unauthorized and leaves every User row, every Payout row and the
\* CreditTransaction ledger as they were.
C1_NonAdminUnauthorized ==
    [][\A r \in Requests :
          (Completes(r) /\ req'[r].op \in GatedOps /\ CallerNotAdmin(req'[r]))
             => /\ req'[r].outcome = "throw"
                /\ req'[r].result = "Unauthorized"
                /\ store' = store]_vars

C1_Witness ==
    \E r \in Requests :
       /\ req[r].pc = "done"
       /\ req[r].op = "approvePayout"
       /\ req[r].userId = "clerk_l1"
       /\ ~req[r].authThrows /\ ~req[r].dbThrows
       /\ req[r].result = "Unauthorized"

\* C7: verifyAdmin never raises; it returns true exactly when the caller has
\* an identity whose User row exists with role ADMIN and nothing failed, and
\* false otherwise, a failure of auth() or of the lookup included.
C7_VerifyAdminNeverRaises ==
    \A r \in Requests :
       (req[r].pc = "done" /\ req[r].op = "verifyAdmin")
          => /\ req[r].outcome = "return"
             /\ req[r].result = (IF CallerIsAdmin(req[r]) THEN "true" ELSE "false")

\* C8: updateLawyerStatus by an admin with no provider id, or with a status
\* other than VERIFIED and REJECTED, throws Invalid input, writes nothing and
\* signals no cache invalidation.
C8_InvalidStatusRejected ==
    [][\A r \in Requests :
          (/\ Completes(r)
           /\ req'[r].op = "updateLawyerStatus"
           /\ req'[r].isAdmin = "true"
           /\ \/ req'[r].lawyerId = ""
              \/ req'[r].status \notin {"VERIFIED", "REJECTED"})
             => /\ req'[r].outcome = "throw"
                /\ req'[r].result = "Invalid input"
                /\ ~req'[r].revalidated
                /\ store' = store]_vars

C8_Witness ==
    \E r \in Requests :
       /\ req[r].pc = "done"
       /\ req[r].op = "updateLawyerStatus"
       /\ req[r].lawyerId = "l1"
       /\ req[r].status = "PENDING"
       /\ req[r].result = "Invalid input"

\* C9: updateLawyerActiveStatus by an admin on an existing provider, the
\* store not failing, sets that provider's verification status to PENDING
\* when suspend is "true" and to VERIFIED otherwise, and changes nothing
\* else; so un-suspending a suspended provider that was VERIFIED gives back
\* the store as it was before the suspension.
C9_SuspendToggle ==
    [][\A r \in Requests :
          (/\ Completes(r)
           /\ req'[r].op = "updateLawyerActiveStatus"
           /\ req'[r].isAdmin = "true"
           /\ req'[r].lawyerId \in UserIds
           /\ req'[r].cause # "store")
             => /\ req'[r].result = "success"
                /\ users' = [users EXCEPT ![req'[r].lawyerId].verificationStatus =
                               IF req'[r].suspend = "true" THEN "PENDING" ELSE "VERIFIED"]
                /\ payouts' = payouts
                /\ ledger' = ledger
                /\ (req'[r].suspend # "true" /\ users[req'[r].lawyerId].verificationStatus = "PENDING")
                      => [users' EXCEPT ![req'[r].lawyerId].verificationStatus = "PENDING"] = users]_vars

\* An un-suspension of l1 has just completed and l1 is VERIFIED.
C9_Witness ==
    \E r \in Requests :
       /\ req[r].pc = "done"
       /\ req[r].op = "updateLawyerActiveStatus"
       /\ req[r].lawyerId = "l1"
       /\ req[r].suspend = "false"
       /\ req[r].result = "success"
       /\ users["l1"].verificationStatus = "VERIFIED"

\* Request r, an approvePayout past its gate, ends in this step for a reason
\* other than a failure of the store.
ApprovalEnds(r) ==
    /\ Completes(r)
    /\ req[r].pc \in {"fetch", "tx"}
    /\ req'[r].cause # "store"

Owner(p) == payouts[p].lawyerId

LedgerEntry(p) ==
    [userId |-> Owner(p), amount |-> 0 - payouts[p].credits, type |-> "ADMIN_ADJUSTMENT"]

\* C4: an approval by an admin of a payout in PROCESSING whose owner holds at
\* least the requested credits, no store call failing, returns success; the
\* payout is then PROCESSED, the owner's credits are lower by the amount and
\* one CreditTransaction of minus the amount, type ADMIN_ADJUSTMENT, is added.
C4_ApprovalSucceeds ==
    [][\A r \in Requests :
          (/\ ApprovalEnds(r)
           /\ req[r].payoutId \in PayoutIds
           /\ payouts[req[r].payoutId].status = "PROCESSING"
           /\ users[Owner(req[r].payoutId)].credits >= payouts[req[r].payoutId].credits)
             => LET p == req[r].payoutId IN
                /\ req'[r].outcome = "return"
                /\ req'[r].result = "success"
                /\ payouts'[p].status = "PROCESSED"
                /\ users' = [users EXCEPT ![Owner(p)].credits = @ - payouts[p].credits]
                /\ ledger' = Append(ledger, LedgerEntry(p))]_vars

\* C5: an approval by an admin of a payout in PROCESSING whose owner holds
\* fewer credits than requested fails with the insufficient-credits error and
\* changes nothing.
C5_InsufficientCredits ==
    [][\A r \in Requests :
          (/\ ApprovalEnds(r)
           /\ req[r].payoutId \in PayoutIds
           /\ payouts[req[r].payoutId].status = "PROCESSING"
           /\ users[Owner(req[r].payoutId)].credits < payouts[req[r].payoutId].credits)
             => /\ req'[r].outcome = "throw"
                /\ req'[r].cause = "lawyer doesn't have enough credits for this payout"
                /\ store' = store]_vars

\* C6: an approval of a payout that an earlier approval has processed, or of
\* an id no payout has, fails with the not-found-or-already-processed error
\* and changes nothing: the payout keeps its processedAt and processedBy, no
\* credits are taken and no CreditTransaction is added.
C6_SecondApprovalRejected ==
    [][\A r \in Requests :
          (/\ ApprovalEnds(r)
           /\ \/ req[r].payoutId \notin PayoutIds
              \/ payouts[req[r].payoutId].status = "PROCESSED")
             => /\ req'[r].outcome = "throw"
                /\ req'[r].cause = "Payout request not found or already processed"
                /\ store' = store]_vars

\* A second approval of p1 has been turned down after a first one processed it.
C6_Witness ==
    \E r \in Requests :
       /\ req[r].pc = "done"
       /\ req[r].payoutId = "p1"
       /\ req[r].cause = "Payout request not found or already processed"
       /\ payouts["p1"].status = "PROCESSED"
       /\ payouts["p1"].processedBy = "a1"
       /\ Len(ledger) = 1

\* Some payout row, some credit balance or the ledger differs after the step.
LedgerStateChanges ==
    \/ payouts' # payouts
    \/ ledger' # ledger
    \/ \E u \in UserIds : users'[u].credits # users[u].credits

\* C3: approvePayout is atomic.  A step that changes a payout, a balance or
\* the ledger is the commit of one approval and applies all three mutations
\* for its payout: status PROCESSED with processedAt and processedBy, the
\* owner's credits lower by the amount, one CreditTransaction of minus the
\* amount.  An approval whose transaction fails leaves the payout, the
\* balance and the ledger as they were.
C3_ApprovalAtomic ==
    [][/\ LedgerStateChanges =>
             \E r \in Requests :
                LET p == req[r].payoutId IN
                /\ req[r].pc = "tx"
                /\ req'[r].result = "success"
                /\ payouts' = [payouts EXCEPT ![p] =
                      [@ EXCEPT !.status = "PROCESSED", !.processedAt = clock,
                                !.processedBy = req[r].admin]]
                /\ payouts'[p].processedAt > 0
                /\ payouts'[p].processedBy \in UserIds
                /\ users' = [users EXCEPT ![Owner(p)].credits = @ - payouts[p].credits]
                /\ ledger' = Append(ledger, LedgerEntry(p))
       /\ \A r \in Requests :
             (req[r].pc = "tx" /\ Completes(r) /\ req'[r].outcome = "throw")
                => store' = store]_vars

\* An approval has failed in its transaction; its payout is still in
\* PROCESSING and there is no ledger entry.
C3_Witness ==
    \E r \in Requests :
       /\ req[r].pc = "done"
       /\ req[r].outcome = "throw"
       /\ req[r].cause = "store"
       /\ req[r].payout # NoPayout
       /\ payouts[req[r].payoutId].status = "PROCESSING"
       /\ ledger = <<>>

Processed == {p \in PayoutIds : payouts[p].status = "PROCESSED"}

RECURSIVE SumAmounts(_)
SumAmounts(S) ==
    IF S = {} THEN 0
    ELSE LET p == CHOOSE x \in S : TRUE IN payouts[p].credits + SumAmounts(S \ {p})

RECURSIVE SumLedger(_)
SumLedger(entries) ==
    IF entries = <<>> THEN 0 ELSE Head(entries).amount + SumLedger(Tail(entries))

====
